---- MODULE Spec2Model ----
(***************************************************************************)
(* Voice translation app (src/app.py): one Streamlit script that is re-run *)
(* from top to bottom on every interaction.  A run handles the Japanese    *)
(* recorder, then the English recorder, then merges both conversation logs *)
(* by timestamp and renders one bubble per message.  The three gateways    *)
(* (transcription, translation, speech synthesis) are external services:   *)
(* what they return, and whether they raise, is chosen by the environment. *)
(* No gateway call is wrapped in try/except: an exception ends the run.     *)
(*                                                                         *)
(* st.session_state.audio_bytes_japanese, audio_bytes_english and messages *)
(* are written and never read, and are left out.  nsub, last and prev are   *)
(* history variables: they record what the calls of process_audio did and   *)
(* decide nothing.                                                          *)
(***************************************************************************)
EXTENDS Integers, Sequences, FiniteSets, TLC

VARIABLES
    messages_japanese,  \* st.session_state.messages_japanese
    messages_english,   \* st.session_state.messages_english
    pc,                 \* position of the running script: "japanese", "english", "render"
    nsub,               \* number of process_audio calls made so far in the session
    last,               \* what the most recent process_audio call did, and the logs before it
    prev,               \* per language, transcript and exception of its most recent call
    all_messages,       \* the merged list built by the most recent render pass
    bubbles,            \* the bubbles emitted by the most recent render pass
    audio_tags,         \* the audio controls emitted by the most recent render pass
    render_raised       \* whether that pass was ended by an exception

vars == <<messages_japanese, messages_english, pc, nsub, last, prev,
          all_messages, bubbles, audio_tags, render_raised>>

----------------------------------------------------------------------------
(* Bounds of the model *)

MaxSubmits == 2     \* process_audio calls per session
MaxTime == 2        \* readings of time.time() are 1..MaxTime

(* Program constant: the minimum audio length of process_audio *)
MinAudioLen == 16000

----------------------------------------------------------------------------
(* Values exchanged with the environment *)

Languages == {"Japanese", "English"}

\* len(audio_bytes) of a recording; the recorder returns None when nothing was recorded
AudioLens == {15999, 16000}

\* transcript.text values the transcription service may return
Transcripts == {"hello", "arigatou"}

\* response.choices[0].message.content, a string modelled as a sequence of characters
RawResponses(target_lang) ==
    IF target_lang = "English"
    THEN { <<" ", "h", "i">>, <<"h", "i", "\n">> }
    ELSE { <<"y", "a", " ">>, <<" ", "y", "a">> }

Times == 1..MaxTime

\* the gateway call of a submission that raises, if it is reached
Failures == {"none", "transcribe", "translate", "synthesize"}

NoText == "NoText"       \* no transcript was obtained
NoTranslation == <<>>    \* no translation was obtained
NoCall == [transcript |-> NoText, raised |-> "none"]

\* the value of last before the first call of process_audio
NoSubmission ==
    [lang |-> "none", audio_len |-> 0, warned |-> FALSE, calls |-> <<>>,
     raised |-> "none", transcript |-> NoText, translated |-> NoTranslation,
     autoplayed |-> <<>>, before_japanese |-> <<>>, before_english |-> <<>>,
     earlier |-> NoCall]

----------------------------------------------------------------------------
(* Gateways *)

Whitespace == {" ", "\n", "\t"}

RECURSIVE LStrip(_)
LStrip(s) ==
    IF s # <<>> /\ Head(s) \in Whitespace THEN LStrip(Tail(s)) ELSE s

RECURSIVE RStrip(_)
RStrip(s) ==
    IF s # <<>> /\ s[Len(s)] \in Whitespace THEN RStrip(SubSeq(s, 1, Len(s) - 1)) ELSE s

\* str.strip()
Strip(s) == RStrip(LStrip(s))

\* translate_text: the stripped content of the first choice
translate_text(text, target_lang, content) == Strip(content)

\* text_to_speech: the audio the service returns for a text
text_to_speech(text) == <<"mp3", text>>

\* autoplay_audio: the data URI the emitted script plays
autoplay_audio(audio_content) == <<"data:audio/mp3;base64", audio_content>>

----------------------------------------------------------------------------
(* process_audio *)

\* mutant: the comparison points the other way
TooShort_Flipped(audio_len) == audio_len > MinAudioLen

\* len(audio_bytes) < 16000
TooShort(audio_len) == audio_len < MinAudioLen

\* the two logs of st.session_state
Session ==
    [messages_japanese |-> messages_japanese, messages_english |-> messages_english]

\* mutant: the language name is compared in the wrong case, as the renderer spells it
Selected_WrongCase(source_lang) ==
    IF source_lang = "japanese" THEN "messages_japanese" ELSE "messages_english"

\* the log process_audio selects for a source language
Selected(source_lang) ==
    IF source_lang = "Japanese" THEN "messages_japanese" ELSE "messages_english"

\* mutant: == in place of !=
IsNew_Inverted(messages, transcript) ==
    messages = <<>> \/ messages[Len(messages)].content = transcript

\* mutant: the transcript is compared with the translation of the last entry
IsNew_WrongField(messages, transcript) ==
    messages = <<>> \/ messages[Len(messages)].translated # transcript

\* not messages or messages[-1]['content'] != transcript
IsNew(messages, transcript) ==
    messages = <<>> \/ messages[Len(messages)].content # transcript

NewMessage(transcript, translated_text, now) ==
    [content |-> transcript, translated |-> translated_text, timestamp |-> now]

\* mutant: messages.insert(0, new_message)
AppendMessage_AtFront(messages, new_message) == <<new_message>> \o messages

\* messages.append(new_message)
AppendMessage(messages, new_message) == Append(messages, new_message)

(* One call of process_audio.  tr and tl are what the transcription and the *)
(* translation service answer if they are called, fails is the gateway call *)
(* that raises if it is reached.  messages is the selected list itself, so  *)
(* appending to it changes the session.  The result names the session after *)
(* the call and what the call did.                                          *)
Process(audio_len, source_lang, target_lang, tr, tl, fails, now) ==
    LET messages == Session[Selected(source_lang)]
        base == [NoSubmission EXCEPT
                    !.lang = source_lang, !.audio_len = audio_len,
                    !.before_japanese = messages_japanese,
                    !.before_english = messages_english,
                    !.earlier = prev[source_lang]]
    IN  IF TooShort(audio_len)
        THEN [session |-> Session, rec |-> [base EXCEPT !.warned = TRUE]]
        ELSE IF fails = "transcribe"
        THEN [session |-> Session,
              rec |-> [base EXCEPT !.calls = <<"transcribe">>, !.raised = "transcribe"]]
        ELSE IF ~IsNew(messages, tr)
        THEN [session |-> Session,
              rec |-> [base EXCEPT !.calls = <<"transcribe">>, !.transcript = tr]]
        ELSE IF fails = "translate"
        THEN [session |-> Session,
              rec |-> [base EXCEPT !.calls = <<"transcribe", "translate">>,
                                   !.raised = "translate", !.transcript = tr]]
        ELSE LET translated_text == translate_text(tr, target_lang, tl)
                 appended == AppendMessage(messages,
                                 NewMessage(tr, translated_text, now))
                 called == [base EXCEPT
                               !.calls = <<"transcribe", "translate", "synthesize">>,
                               !.transcript = tr, !.translated = translated_text]
                 stored == [Session EXCEPT ![Selected(source_lang)] = appended]
                 audio_content == text_to_speech(translated_text)
             IN  IF fails = "synthesize"
                 THEN [session |-> stored,
                       rec |-> [called EXCEPT !.raised = "synthesize"]]
                 ELSE [session |-> stored,
                       rec |-> [called EXCEPT
                                  !.autoplayed = <<autoplay_audio(audio_content)>>]]

\* where the script goes after a recorder block: an exception ends the run
AfterBlock(raised, following) == IF raised # "none" THEN "japanese" ELSE following

RenderVars == <<all_messages, bubbles, audio_tags, render_raised>>

Submit(source_lang, target_lang, following) ==
    /\ nsub < MaxSubmits
    /\ \E audio_len \in AudioLens, tr \in Transcripts, fails \in Failures,
          now \in Times :
       \E tl \in RawResponses(target_lang) :
          LET r == Process(audio_len, source_lang, target_lang, tr, tl, fails, now)
          IN  /\ messages_japanese' = r.session.messages_japanese
              /\ messages_english' = r.session.messages_english
              /\ last' = r.rec
              /\ prev' = [prev EXCEPT ![source_lang] =
                             [transcript |-> r.rec.transcript, raised |-> r.rec.raised]]
              /\ pc' = AfterBlock(r.rec.raised, following)
    /\ nsub' = nsub + 1
    /\ UNCHANGED RenderVars

\* if audio_bytes_japanese: process_audio(..., "Japanese", "English")
SubmitJapanese ==
    /\ pc = "japanese"
    /\ Submit("Japanese", "English", "english")

\* if audio_bytes_english: process_audio(..., "English", "Japanese")
SubmitEnglish ==
    /\ pc = "english"
    /\ Submit("English", "Japanese", "render")

\* the recorder returned nothing: the block is skipped
NoAudioJapanese ==
    /\ pc = "japanese"
    /\ pc' = "english"
    /\ UNCHANGED <<messages_japanese, messages_english, nsub, last, prev>>
    /\ UNCHANGED RenderVars

NoAudioEnglish ==
    /\ pc = "english"
    /\ pc' = "render"
    /\ UNCHANGED <<messages_japanese, messages_english, nsub, last, prev>>
    /\ UNCHANGED RenderVars

----------------------------------------------------------------------------
(* Render pass *)

Tagged(messages, lang) == [i \in 1..Len(messages) |-> <<messages[i], lang>>]

\* key=lambda x: x[0].get('timestamp', 0)
SortKey(x) == x[1].timestamp

\* mutant: x goes before the elements of equal key, an unstable sort
InsertSorted_Unstable(s, x) ==
    LET n == Cardinality({i \in 1..Len(s) : SortKey(s[i]) < SortKey(x)})
    IN  SubSeq(s, 1, n) \o <<x>> \o SubSeq(s, n + 1, Len(s))

\* x goes after every element whose key is not greater: equal keys keep their order
InsertSorted(s, x) ==
    LET n == Cardinality({i \in 1..Len(s) : SortKey(s[i]) <= SortKey(x)})
    IN  SubSeq(s, 1, n) \o <<x>> \o SubSeq(s, n + 1, Len(s))

\* sorted(seq, key=...): a stable sort returning a new list
RECURSIVE sorted(_)
sorted(s) ==
    IF s = <<>> THEN <<>>
    ELSE InsertSorted(sorted(SubSeq(s, 1, Len(s) - 1)), s[Len(s)])

MergeMessages(japanese, english) ==
    sorted(Tagged(japanese, "japanese") \o Tagged(english, "english"))

\* the markup of one message
Bubble(x) ==
    LET msg == x[1]
        lang == x[2]
    IN  [align |-> IF lang = "japanese" THEN "left" ELSE "right",
         message_class |-> IF lang = "japanese" THEN "japanese-message"
                                                 ELSE "english-message",
         translation_class |-> IF lang = "japanese" THEN "english" ELSE "japanese",
         primary |-> msg.content,
         secondary |-> msg.translated]

\* the audio control of one message
AudioTag(x) == <<"data:audio/mp3;base64", text_to_speech(x[1].translated)>>

(* The loop emits the bubble of a message and then asks the synthesis       *)
(* service for its audio.  failed = 0: no call raises.  failed = k: the call *)
(* for the k-th message raises, after its bubble was emitted.                *)
Render ==
    /\ pc = "render"
    /\ LET merged == MergeMessages(messages_japanese, messages_english)
       IN  \E failed \in 0..Len(merged) :
              LET shown == IF failed = 0 THEN Len(merged) ELSE failed
                  heard == IF failed = 0 THEN Len(merged) ELSE failed - 1
              IN  /\ all_messages' = merged
                  /\ bubbles' = [i \in 1..shown |-> Bubble(merged[i])]
                  /\ audio_tags' = [i \in 1..heard |-> AudioTag(merged[i])]
                  /\ render_raised' = (failed # 0)
    /\ pc' = "japanese"
    /\ UNCHANGED <<messages_japanese, messages_english, nsub, last, prev>>

----------------------------------------------------------------------------

Init ==
    /\ messages_japanese = <<>>
    /\ messages_english = <<>>
    /\ pc = "japanese"
    /\ nsub = 0
    /\ last = NoSubmission
    /\ prev = [l \in Languages |-> NoCall]
    /\ all_messages = <<>>
    /\ bubbles = <<>>
    /\ audio_tags = <<>>
    /\ render_raised = FALSE

Next ==
    \/ SubmitJapanese
    \/ NoAudioJapanese
    \/ SubmitEnglish
    \/ NoAudioEnglish
    \/ Render

Spec == Init /\ [][Next]_vars

----------------------------------------------------------------------------
(* Properties *)

\* process_audio has been called, and last describes its most recent call
Called == last.lang # "none"

\* the log of the language of the most recent call, before and after the call
SourceBefore ==
    IF last.lang = "Japanese" THEN last.before_japanese ELSE last.before_english
SourceNow ==
    IF last.lang = "Japanese" THEN messages_japanese ELSE messages_english

\* the log of the other language, before and after the call
OtherBefore ==
    IF last.lang = "Japanese" THEN last.before_english ELSE last.before_japanese
OtherNow ==
    IF last.lang = "Japanese" THEN messages_english ELSE messages_japanese

\* both logs are as they were before the most recent call
LogsUntouched ==
    /\ messages_japanese = last.before_japanese
    /\ messages_english = last.before_english

\* the most recent call added exactly one entry at the tail of its language's log
AppendedOne ==
    /\ Len(SourceNow) = Len(SourceBefore) + 1
    /\ SubSeq(SourceNow, 1, Len(SourceBefore)) = SourceBefore

IsPrefix(s, t) == Len(s) <= Len(t) /\ SubSeq(t, 1, Len(s)) = s

\* C1: a submission in which a gateway call fails leaves both logs as they were.
C1_NoPartialCommit ==
    (Called /\ last.raised # "none") => LogsUntouched

\* C2 as stated: when two consecutive submissions to one language have the same
\* transcript, the second calls only transcription and appends nothing.
C2_SecondIsDropped ==
    (Called /\ last.transcript # NoText /\ last.earlier.transcript = last.transcript)
        => (last.calls = <<"transcribe">> /\ LogsUntouched)

\* C2 amended: when two consecutive submissions to one language have the same
\* transcript and the first did not fail in translation, the second calls only
\* transcription and appends nothing.
C2_SecondIsDroppedUnlessFirstFailed ==
    (Called /\ last.transcript # NoText /\ last.earlier.transcript = last.transcript
            /\ last.earlier.raised # "translate")
        => (last.calls = <<"transcribe">> /\ LogsUntouched)

\* a second submission with the transcript of the first, which had stored it
C2_Witness ==
    /\ Called /\ last.transcript # NoText
    /\ last.earlier.transcript = last.transcript
    /\ last.earlier.raised = "none"
    /\ last.calls = <<"transcribe">>
    /\ Len(SourceNow) = 1

\* C3: audio shorter than 16000 bytes makes no gateway call, leaves both logs
\* unchanged and reports a warning.
C3_TooShortRejected ==
    (Called /\ last.audio_len < 16000)
        => (last.calls = <<>> /\ LogsUntouched /\ last.warned)

\* a short recording was submitted while a log held a message
C3_Witness ==
    /\ Called /\ last.audio_len = 15999 /\ last.warned
    /\ Len(SourceNow) > 0

\* C4: a successful submission (long enough, no call fails, transcript new to the
\* source log) appends exactly one message to the tail of the source log, holding
\* the transcript and the translation, and leaves the other log unchanged.
C4_SuccessAppendsOne ==
    (/\ Called /\ last.audio_len >= 16000 /\ last.raised = "none"
     /\ last.transcript # NoText
     /\ \/ SourceBefore = <<>>
        \/ SourceBefore[Len(SourceBefore)].content # last.transcript)
        => /\ AppendedOne
           /\ SourceNow[Len(SourceNow)].content = last.transcript
           /\ SourceNow[Len(SourceNow)].translated = last.translated
           /\ last.translated # NoTranslation
           /\ OtherNow = OtherBefore

\* a successful English submission whose transcript is the last one of the Japanese log
C4_Witness ==
    /\ Called /\ last.lang = "English" /\ last.raised = "none"
    /\ Len(last.calls) = 3
    /\ Len(messages_japanese) = 1
    /\ messages_japanese[1].content = last.transcript
    /\ Len(messages_english) = Len(last.before_english) + 1

NoConsecutiveDuplicates(messages) ==
    \A i \in 1..(Len(messages) - 1) : messages[i].content # messages[i + 1].content

\* C5: neither log ever holds two consecutive entries with the same original text.
C5_NoConsecutiveDuplicates ==
    /\ NoConsecutiveDuplicates(messages_japanese)
    /\ NoConsecutiveDuplicates(messages_english)

\* a submission repeating the last transcript of its log was made and dropped
C5_Witness ==
    /\ Called /\ last.transcript # NoText
    /\ SourceBefore # <<>>
    /\ SourceBefore[Len(SourceBefore)].content = last.transcript
    /\ SourceNow = SourceBefore

\* the number of positions of s that hold x
Count(s, x) == Cardinality({i \in 1..Len(s) : s[i] = x})

\* the messages of a merged list that carry a tag and a timestamp, in merged order
MergedOf(merged, lang, t) ==
    LET keep(x) == x[2] = lang /\ x[1].timestamp = t
        kept == SelectSeq(merged, keep)
    IN  [i \in 1..Len(kept) |-> kept[i][1]]

\* the messages of a log that carry a timestamp, in insertion order
StoredAt(messages, t) ==
    LET keep(m) == m.timestamp = t
    IN  SelectSeq(messages, keep)

MergeIsCorrect(merged, japanese, english) ==
    LET tagged == Tagged(japanese, "japanese") \o Tagged(english, "english")
    IN  /\ Len(merged) = Len(tagged)
        /\ \A i \in 1..Len(tagged) : Count(merged, tagged[i]) = Count(tagged, tagged[i])
        /\ \A i \in 1..(Len(merged) - 1) :
              merged[i][1].timestamp <= merged[i + 1][1].timestamp
        /\ \A t \in Times :
              /\ MergedOf(merged, "japanese", t) = StoredAt(japanese, t)
              /\ MergedOf(merged, "english", t) = StoredAt(english, t)

C7_RunContinuesAfterFailure ==
    [][(nsub' = nsub + 1 /\ last'.raised # "none")
          => pc' = (IF pc = "japanese" THEN "english" ELSE "render")]_vars

\* C8: a render pass over the session the previous pass rendered emits the same
\* bubbles in the same order.
C8_RenderIsIdempotent ==
    [][(pc = "render" /\ all_messages # <<>> /\ all_messages' = all_messages)
          => bubbles' = bubbles]_vars

\* C9: every step leaves each log a prefix of its new value.
C9_LogsAppendOnly ==
    [][/\ IsPrefix(messages_japanese, messages_japanese')
       /\ IsPrefix(messages_english, messages_english')]_vars

\* a log holds two messages out of timestamp order, and a pass has rendered them
C9_Witness ==
    /\ Len(messages_japanese) = 2
    /\ messages_japanese[1].timestamp > messages_japanese[2].timestamp
    /\ all_messages = << <<messages_japanese[2], "japanese">>,
                         <<messages_japanese[1], "japanese">> >>

\* C10: a submission triggers autoplay exactly when it appended a message, once,
\* with the synthesis of the translation of that message.
C10_AutoplayIffAppended ==
    Called =>
        /\ Len(last.autoplayed) <= 1
        /\ (Len(last.autoplayed) = 1) <=> (SourceNow # SourceBefore)
        /\ Len(last.autoplayed) = 1 =>
              last.autoplayed =
                 <<autoplay_audio(text_to_speech(SourceNow[Len(SourceNow)].translated))>>

====
